---- MODULE Spec2Model ----
(***************************************************************************)
(* Model of userHasScopes (packages/cli/src/permissions.ee/check-access.ts) *)
(* and of the collaborators it reads: the user's global role and           *)
(* projectRoles list, the role/scope grant mapping, and the workflow- and   *)
(* credential-sharing records.                                             *)
(***************************************************************************)
EXTENDS Integers, Sequences, FiniteSets, TLC

\* ------------------------------------------------------------------ bounds
\* Longest projectRoles list a user holds.
MaxRoles == 2

\* ------------------------------------------------------------- value sets
Projects == {"P1", "P2"}
WorkflowIds == {"W1"}
CredentialIds == {"C1"}
Scopes == {"s1", "s2"}
GlobalRoles == {"global:owner", "global:member"}
ProjectRoleNames == {"project:admin", "project:editor"}

\* An optional parameter that was not passed (credentialId?: string).
Undefined == "undefined"
\* findOneBy resolves to null when no record matches.
NoRecord == "null"
\* JavaScript truthiness of an optional string: undefined and '' are falsy.
Truthy(x) == x # Undefined /\ x # ""

\* ------------------------------------------------ external grant mapping
\* Scopes granted by each global role (static table of @n8n/permissions).
GlobalRoleScopes ==
    ("global:owner" :> {"s1", "s2"}) @@ ("global:member" :> {"s1"})

\* Scopes granted by each role of a resource kind.
ResourceRoleScopes ==
    [ project |-> ("project:admin" :> {"s1", "s2"}) @@ ("project:editor" :> {"s1"}),
      workflow |-> ("workflow:owner" :> {"s1", "s2"}) @@ ("project:editor" :> {"s1", "s2"}),
      credential |-> ("credential:owner" :> {"s1", "s2"}) @@ ("project:editor" :> {"s1", "s2"}) ]

\* hasGlobalScope(user, scopes, { mode: 'allOf' })
hasGlobalScope(u, scopes) == scopes \subseteq GlobalRoleScopes[u.role]

\* rolesWithScope(kind, scopes): every role of the kind granting all scopes.
rolesWithScope(kind, scopes) ==
    {r \in DOMAIN ResourceRoleScopes[kind] : scopes \subseteq ResourceRoleScopes[kind][r]}

\* ------------------------------------------------------------------ users
ProjectRoleAssignment == [projectId : Projects, role : ProjectRoleNames]

RECURSIVE ListsUpTo(_)
ListsUpTo(n) ==
    IF n = 0 THEN {<<>>}
    ELSE LET shorter == ListsUpTo(n - 1)
         IN shorter \cup {Append(l, e) : l \in {s \in shorter : Len(s) = n - 1},
                                         e \in ProjectRoleAssignment}

\* At most one entry per project (data-model invariant of User.projectRoles).
OnePerProject(l) ==
    \A i, j \in 1..Len(l) : l[i].projectId = l[j].projectId => i = j

\* User.projectRoles is a nullable JSON column: null, or a list of entries.
NullRoles == [null |-> TRUE, items |-> <<>>]
RoleLists == {l \in ListsUpTo(MaxRoles) : OnePerProject(l)}
ProjectRolesValues == {NullRoles} \cup {[null |-> FALSE, items |-> l] : l \in RoleLists}

Users == [role : GlobalRoles, projectRoles : ProjectRolesValues]

\* Array.prototype.find(pr => pr.projectId === p): index of the first match, 0 if none.
FindIndex(items, p) ==
    IF \E i \in 1..Len(items) : items[i].projectId = p
    THEN CHOOSE i \in 1..Len(items) :
            /\ items[i].projectId = p
            /\ \A j \in 1..(i - 1) : items[j].projectId # p
    ELSE 0

\* ------------------------------------------------------------------ state
VARIABLES
    user,              \* the user entity handed to the guard
    sharedWorkflow,    \* SharedWorkflowRepository: workflowId -> projectId or null
    sharedCredential,  \* SharedCredentialsRepository: credentialsId -> projectId or null
    pc,                \* position of the evaluation in userHasScopes
    args,              \* arguments of the evaluation in progress
    currentProjectId,  \* local variable currentProjectId
    result,            \* NONE while running, then GRANTED, DENIED or ERROR
    error,             \* which error ended the evaluation
    trace,             \* collaborator calls made by the evaluation, in order
    prev,              \* outcome of the preceding call when the caller repeats it
    svc,               \* the UserService call being answered, with its outcome
    other,             \* a second evaluation, running concurrently with the first
    colleagues,        \* the other user rows of the repository, in its order
    ctl,               \* the users-controller request being handled, with its outcome
    lastCall           \* history: per project, the last successful assign or revoke

vars == <<user, sharedWorkflow, sharedCredential, pc, args, currentProjectId,
          result, error, trace, prev, svc, other, colleagues, ctl, lastCall>>

store == <<user, sharedWorkflow, sharedCredential>>

\* State that no statement of userHasScopes touches.
beyond == <<prev, svc, other, colleagues, ctl, lastCall>>

\* Id of the user row the repository holds, and the ids callers may pass.
StoredUserId == "userId1"
UserIds == {"userId1", "unknownId"}

\* No UserService call is being answered.
NoCall ==
    [op |-> "none", userId |-> "", projectId |-> "", role |-> "",
     before |-> <<>>, outcome |-> "none", message |-> <<>>, returned |-> <<>>]

\* No request is being handled by the users controller.
NoRequest ==
    [handler |-> "none", targetUserId |-> "", projectId |-> "", role |-> "",
     log |-> <<>>, service |-> "none", emitted |-> <<>>, outcome |-> "none",
     response |-> <<>>]

\* The history of assign and revoke calls: not kept, or, per project, the
\* last call that succeeded and the role last assigned.
NoCalls == [p \in Projects |-> [state |-> "none", role |-> ""]]
NotRecorded == [kept |-> FALSE, calls |-> NoCalls]
Assigned(p, r) ==
    IF lastCall.kept
    THEN [lastCall EXCEPT !.calls[p] = [state |-> "assigned", role |-> r]]
    ELSE lastCall
Revoked(p) ==
    IF lastCall.kept
    THEN [lastCall EXCEPT !.calls[p].state = "revoked"]
    ELSE lastCall

\* No preceding call is being repeated.
NoPrev == [result |-> "NONE", error |-> "none"]

NoArgs ==
    [user |-> [role |-> "global:member", projectRoles |-> NullRoles],
     scopes |-> {}, globalOnly |-> FALSE,
     projectId |-> Undefined, workflowId |-> Undefined, credentialId |-> Undefined]

\* The second evaluation while it is not running.
IdleFrame ==
    [pc |-> "idle", args |-> NoArgs, currentProjectId |-> Undefined,
     result |-> "NONE", error |-> "none"]

ScopeLists == (SUBSET Scopes) \ {{}}
OptionalIds(ids) == {Undefined, ""} \cup ids

Init ==
    /\ user \in Users
    /\ sharedWorkflow \in [WorkflowIds -> Projects \cup {NoRecord}]
    /\ sharedCredential \in [CredentialIds -> Projects \cup {NoRecord}]
    /\ pc = "idle"
    /\ args = NoArgs
    /\ currentProjectId = Undefined
    /\ result = "NONE"
    /\ error = "none"
    /\ trace = <<>>
    /\ prev = NoPrev
    /\ svc = NoCall
    /\ other = IdleFrame
    /\ colleagues = <<>>
    /\ ctl = NoRequest
    /\ lastCall = NotRecorded

\* ---------------------------------------------------------- userHasScopes
\* A caller invokes userHasScopes(user, scopes, globalOnly, {credentialId, workflowId, projectId}).
Invoke ==
    /\ pc = "idle"
    /\ svc = NoCall
    /\ ctl = NoRequest
    /\ \E scopes \in ScopeLists, globalOnly \in BOOLEAN,
          projectId \in OptionalIds(Projects),
          workflowId \in OptionalIds(WorkflowIds),
          credentialId \in OptionalIds(CredentialIds) :
            args' = [user |-> user, scopes |-> scopes, globalOnly |-> globalOnly,
                     projectId |-> projectId, workflowId |-> workflowId,
                     credentialId |-> credentialId]
    /\ pc' = "start"
    /\ currentProjectId' = Undefined
    /\ result' = "NONE"
    /\ error' = "none"
    /\ trace' = <<>>
    /\ prev' = NoPrev
    /\ UNCHANGED <<store, svc, other, colleagues, ctl, lastCall>>

\* The caller repeats the call it just made, with the same arguments
\* (the same user object included).
InvokeAgain ==
    /\ pc = "done"
    /\ prev' = [result |-> result, error |-> error]
    /\ pc' = "start"
    /\ currentProjectId' = Undefined
    /\ result' = "NONE"
    /\ error' = "none"
    /\ trace' = <<>>
    /\ UNCHANGED <<store, args, svc, other, colleagues, ctl, lastCall>>

\* Variant: the globalOnly stop is tested before the global check.
GlobalCheckStopFirst ==
    /\ pc = "start"
    /\ trace' = Append(trace, "hasGlobalScope")
    /\ IF args.globalOnly
       THEN /\ result' = "DENIED"
            /\ pc' = "done"
       ELSE IF hasGlobalScope(args.user, args.scopes)
            THEN /\ result' = "GRANTED"
                 /\ pc' = "done"
            ELSE /\ result' = result
                 /\ pc' = "projectRoles"
    /\ UNCHANGED <<store, beyond, args, currentProjectId, error>>

\* Variant: the globalOnly stop is missing.
GlobalCheckNoStop ==
    /\ pc = "start"
    /\ trace' = Append(trace, "hasGlobalScope")
    /\ IF hasGlobalScope(args.user, args.scopes)
       THEN /\ result' = "GRANTED"
            /\ pc' = "done"
       ELSE /\ result' = result
            /\ pc' = "projectRoles"
    /\ UNCHANGED <<store, beyond, args, currentProjectId, error>>

\* Variant: the project of a workflow is resolved before the global check.
GlobalCheckAfterResolution ==
    /\ pc = "start"
    /\ trace' = IF ~Truthy(args.projectId) /\ Truthy(args.workflowId)
                THEN trace \o <<"findSharedWorkflow", "hasGlobalScope">>
                ELSE Append(trace, "hasGlobalScope")
    /\ IF hasGlobalScope(args.user, args.scopes)
       THEN /\ result' = "GRANTED"
            /\ pc' = "done"
       ELSE IF args.globalOnly
            THEN /\ result' = "DENIED"
                 /\ pc' = "done"
            ELSE /\ result' = result
                 /\ pc' = "projectRoles"
    /\ UNCHANGED <<store, beyond, args, currentProjectId, error>>

\* Lines 27-29: the global check, then the globalOnly stop.
GlobalCheck ==
    /\ pc = "start"
    /\ trace' = Append(trace, "hasGlobalScope")
    /\ IF hasGlobalScope(args.user, args.scopes)
       THEN /\ result' = "GRANTED"
            /\ pc' = "done"
       ELSE IF args.globalOnly
            THEN /\ result' = "DENIED"
                 /\ pc' = "done"
            ELSE /\ result' = result
                 /\ pc' = "projectRoles"
    /\ UNCHANGED <<store, beyond, args, currentProjectId, error>>

\* Variant: a null projectRoles is replaced by [] on the user object.
EnterProjectRolesNormalisesNull ==
    /\ pc = "projectRoles"
    /\ args' = [args EXCEPT !.user.projectRoles.null = FALSE]
    /\ IF Len(args.user.projectRoles.items) > 0
       THEN /\ currentProjectId' = args.projectId
            /\ pc' = "workflow"
       ELSE /\ currentProjectId' = currentProjectId
            /\ pc' = "deny"
    /\ UNCHANGED <<store, beyond, result, error, trace>>

\* Variant: projectRoles.length is read without the null test (TypeError on null).
EnterProjectRolesNoNullTest ==
    /\ pc = "projectRoles"
    /\ IF args.user.projectRoles.null
       THEN /\ result' = "ERROR"
            /\ error' = "TypeError"
            /\ currentProjectId' = currentProjectId
            /\ pc' = "done"
       ELSE /\ result' = result
            /\ error' = error
            /\ IF Len(args.user.projectRoles.items) > 0
               THEN /\ currentProjectId' = args.projectId
                    /\ pc' = "workflow"
               ELSE /\ currentProjectId' = currentProjectId
                    /\ pc' = "deny"
    /\ UNCHANGED <<store, beyond, args, trace>>

\* Variant: the shortcut for a user without project roles returns false.
EnterProjectRolesShortcutDenies ==
    /\ pc = "projectRoles"
    /\ IF ~args.user.projectRoles.null /\ Len(args.user.projectRoles.items) > 0
       THEN /\ currentProjectId' = args.projectId
            /\ pc' = "workflow"
            /\ result' = result
       ELSE /\ currentProjectId' = currentProjectId
            /\ pc' = "done"
            /\ result' = "DENIED"
    /\ UNCHANGED <<store, beyond, args, error, trace>>

\* Variant: the project is resolved whatever projectRoles holds.
EnterProjectRolesAlways ==
    /\ pc = "projectRoles"
    /\ currentProjectId' = args.projectId
    /\ pc' = "workflow"
    /\ UNCHANGED <<store, beyond, args, result, error, trace>>

\* Lines 32-33: enter the projectRoles branch only for a non-empty list.
EnterProjectRoles ==
    /\ pc = "projectRoles"
    /\ IF ~args.user.projectRoles.null /\ Len(args.user.projectRoles.items) > 0
       THEN /\ currentProjectId' = args.projectId
            /\ pc' = "workflow"
       ELSE /\ currentProjectId' = currentProjectId
            /\ pc' = "deny"
    /\ UNCHANGED <<store, beyond, args, result, error, trace>>

\* Variant: an empty workflow lookup is repeated once before giving up.
WorkflowLookupRetries ==
    /\ pc = "workflow"
    /\ IF ~Truthy(currentProjectId) /\ Truthy(args.workflowId)
       THEN IF sharedWorkflow[args.workflowId] # NoRecord
            THEN /\ trace' = Append(trace, "findSharedWorkflow")
                 /\ currentProjectId' = sharedWorkflow[args.workflowId]
            ELSE /\ trace' = trace \o <<"findSharedWorkflow", "findSharedWorkflow">>
                 /\ currentProjectId' = currentProjectId
       ELSE UNCHANGED <<trace, currentProjectId>>
    /\ pc' = "credential"
    /\ UNCHANGED <<store, beyond, args, result, error>>

\* Variant: the workflow lookup is never made.
WorkflowLookupSkipped ==
    /\ pc = "workflow"
    /\ pc' = "credential"
    /\ UNCHANGED <<store, beyond, args, result, error, trace, currentProjectId>>

\* Variant: the workflow lookup is made without testing currentProjectId.
WorkflowLookupUnguarded ==
    /\ pc = "workflow"
    /\ IF Truthy(args.workflowId)
       THEN /\ trace' = Append(trace, "findSharedWorkflow")
            /\ currentProjectId' =
                 IF sharedWorkflow[args.workflowId] # NoRecord
                 THEN sharedWorkflow[args.workflowId]
                 ELSE currentProjectId
       ELSE UNCHANGED <<trace, currentProjectId>>
    /\ pc' = "credential"
    /\ UNCHANGED <<store, beyond, args, result, error>>

\* Variant: a workflow without sharing record ends the resolution.
WorkflowLookupStopsUnresolved ==
    /\ pc = "workflow"
    /\ IF ~Truthy(currentProjectId) /\ Truthy(args.workflowId)
       THEN /\ trace' = Append(trace, "findSharedWorkflow")
            /\ IF sharedWorkflow[args.workflowId] # NoRecord
               THEN /\ currentProjectId' = sharedWorkflow[args.workflowId]
                    /\ pc' = "credential"
               ELSE /\ currentProjectId' = currentProjectId
                    /\ pc' = "deny"
       ELSE /\ UNCHANGED <<trace, currentProjectId>>
            /\ pc' = "credential"
    /\ UNCHANGED <<store, beyond, args, result, error>>

\* Lines 35-40: the workflow-sharing lookup resolves.
WorkflowLookup ==
    /\ pc = "workflow"
    /\ IF ~Truthy(currentProjectId) /\ Truthy(args.workflowId)
       THEN /\ trace' = Append(trace, "findSharedWorkflow")
            /\ currentProjectId' =
                 IF sharedWorkflow[args.workflowId] # NoRecord
                 THEN sharedWorkflow[args.workflowId]
                 ELSE currentProjectId
       ELSE UNCHANGED <<trace, currentProjectId>>
    /\ pc' = "credential"
    /\ UNCHANGED <<store, beyond, args, result, error>>

\* Variant: a rejected workflow lookup is caught and treated as no record.
WorkflowLookupFailsSwallowed ==
    /\ pc = "workflow"
    /\ ~Truthy(currentProjectId) /\ Truthy(args.workflowId)
    /\ trace' = trace \o <<"findSharedWorkflow", "rejected">>
    /\ pc' = "credential"
    /\ UNCHANGED <<store, beyond, args, currentProjectId, result, error>>

\* Line 36: the workflow-sharing lookup rejects; the error propagates.
WorkflowLookupFails ==
    /\ pc = "workflow"
    /\ ~Truthy(currentProjectId) /\ Truthy(args.workflowId)
    /\ trace' = trace \o <<"findSharedWorkflow", "rejected">>
    /\ result' = "ERROR"
    /\ error' = "LookupError"
    /\ pc' = "done"
    /\ UNCHANGED <<store, beyond, args, currentProjectId>>

\* Variant: the credential lookup is made without testing currentProjectId.
CredentialLookupUnguarded ==
    /\ pc = "credential"
    /\ IF Truthy(args.credentialId)
       THEN /\ trace' = Append(trace, "findSharedCredential")
            /\ currentProjectId' =
                 IF sharedCredential[args.credentialId] # NoRecord
                 THEN sharedCredential[args.credentialId]
                 ELSE currentProjectId
       ELSE UNCHANGED <<trace, currentProjectId>>
    /\ pc' = "roleEval"
    /\ UNCHANGED <<store, beyond, args, result, error>>

\* Variant: the credential lookup is never made.
CredentialLookupSkipped ==
    /\ pc = "credential"
    /\ pc' = "roleEval"
    /\ UNCHANGED <<store, beyond, args, result, error, trace, currentProjectId>>

\* Lines 42-47: the credential-sharing lookup resolves.
CredentialLookup ==
    /\ pc = "credential"
    /\ IF ~Truthy(currentProjectId) /\ Truthy(args.credentialId)
       THEN /\ trace' = Append(trace, "findSharedCredential")
            /\ currentProjectId' =
                 IF sharedCredential[args.credentialId] # NoRecord
                 THEN sharedCredential[args.credentialId]
                 ELSE currentProjectId
       ELSE UNCHANGED <<trace, currentProjectId>>
    /\ pc' = "roleEval"
    /\ UNCHANGED <<store, beyond, args, result, error>>

\* Line 43: the credential-sharing lookup rejects; the error propagates.
CredentialLookupFails ==
    /\ pc = "credential"
    /\ ~Truthy(currentProjectId) /\ Truthy(args.credentialId)
    /\ trace' = trace \o <<"findSharedCredential", "rejected">>
    /\ result' = "ERROR"
    /\ error' = "LookupError"
    /\ pc' = "done"
    /\ UNCHANGED <<store, beyond, args, currentProjectId>>

\* Variant: the matching entry is taken out of the user's list (splice for find).
RoleEvalConsumesEntry ==
    /\ pc = "roleEval"
    /\ LET items == args.user.projectRoles.items
           idx == FindIndex(items, currentProjectId)
       IN IF Truthy(currentProjectId) /\ idx # 0
          THEN /\ trace' = trace \o <<"find", "rolesWithScope:project">>
               /\ args' = [args EXCEPT !.user.projectRoles.items =
                              SubSeq(items, 1, idx - 1) \o SubSeq(items, idx + 1, Len(items))]
               /\ IF items[idx].role \in rolesWithScope("project", args.scopes)
                  THEN /\ result' = "GRANTED"
                       /\ pc' = "done"
                  ELSE /\ result' = result
                       /\ pc' = "deny"
          ELSE /\ trace' = IF Truthy(currentProjectId) THEN Append(trace, "find") ELSE trace
               /\ args' = args
               /\ result' = result
               /\ pc' = "deny"
    /\ UNCHANGED <<store, beyond, currentProjectId, error>>

\* Variant: any entry for the project grants, whatever its role.
RoleEvalAnyRole ==
    /\ pc = "roleEval"
    /\ LET items == args.user.projectRoles.items
           idx == FindIndex(items, currentProjectId)
       IN IF Truthy(currentProjectId) /\ idx # 0
          THEN /\ trace' = trace \o <<"find", "rolesWithScope:project">>
               /\ result' = "GRANTED"
               /\ pc' = "done"
          ELSE /\ trace' = IF Truthy(currentProjectId) THEN Append(trace, "find") ELSE trace
               /\ result' = result
               /\ pc' = "deny"
    /\ UNCHANGED <<store, beyond, args, currentProjectId, error>>

\* Variant: the entry is searched by granting role only, not by project.
RoleEvalAnyProject ==
    /\ pc = "roleEval"
    /\ LET items == args.user.projectRoles.items
           permitted == rolesWithScope("project", args.scopes)
       IN IF Truthy(currentProjectId)
             /\ \E i \in 1..Len(items) : items[i].role \in permitted
          THEN /\ trace' = trace \o <<"find", "rolesWithScope:project">>
               /\ result' = "GRANTED"
               /\ pc' = "done"
          ELSE /\ trace' = IF Truthy(currentProjectId) THEN Append(trace, "find") ELSE trace
               /\ result' = result
               /\ pc' = "deny"
    /\ UNCHANGED <<store, beyond, args, currentProjectId, error>>

\* Variant: a granting role records the grant without returning.
RoleEvalNoReturn ==
    /\ pc = "roleEval"
    /\ LET items == args.user.projectRoles.items
           idx == FindIndex(items, currentProjectId)
       IN IF Truthy(currentProjectId)
          THEN IF idx # 0
               THEN /\ trace' = trace \o <<"find", "rolesWithScope:project">>
                    /\ result' = IF items[idx].role \in rolesWithScope("project", args.scopes)
                                 THEN "GRANTED" ELSE result
                    /\ pc' = "deny"
               ELSE /\ trace' = Append(trace, "find")
                    /\ result' = result
                    /\ pc' = "deny"
          ELSE /\ trace' = trace
               /\ result' = result
               /\ pc' = "deny"
    /\ UNCHANGED <<store, beyond, args, currentProjectId, error>>

\* Variant: the grant table is the one of the kind of identifier passed.
RoleEvalKindOfIdentifier ==
    /\ pc = "roleEval"
    /\ LET items == args.user.projectRoles.items
           idx == FindIndex(items, currentProjectId)
           kind == IF Truthy(args.projectId) THEN "project"
                   ELSE IF Truthy(args.workflowId) THEN "workflow"
                   ELSE "credential"
           call == IF kind = "project" THEN "rolesWithScope:project"
                   ELSE IF kind = "workflow" THEN "rolesWithScope:workflow"
                   ELSE "rolesWithScope:credential"
       IN IF Truthy(currentProjectId)
          THEN IF idx # 0
               THEN /\ trace' = trace \o <<"find", call>>
                    /\ IF items[idx].role \in rolesWithScope(kind, args.scopes)
                       THEN /\ result' = "GRANTED"
                            /\ pc' = "done"
                       ELSE /\ result' = result
                            /\ pc' = "deny"
               ELSE /\ trace' = Append(trace, "find")
                    /\ result' = result
                    /\ pc' = "deny"
          ELSE /\ trace' = trace
               /\ result' = result
               /\ pc' = "deny"
    /\ UNCHANGED <<store, beyond, args, currentProjectId, error>>

\* Variant: any entry of the project with a permitted role grants.
RoleEvalSomeMatch ==
    /\ pc = "roleEval"
    /\ LET items == args.user.projectRoles.items
           idx == FindIndex(items, currentProjectId)
       IN IF Truthy(currentProjectId)
          THEN IF idx # 0
               THEN /\ trace' = trace \o <<"find", "rolesWithScope:project">>
                    /\ IF \E i \in 1..Len(items) :
                             /\ items[i].projectId = currentProjectId
                             /\ items[i].role \in rolesWithScope("project", args.scopes)
                       THEN /\ result' = "GRANTED"
                            /\ pc' = "done"
                       ELSE /\ result' = result
                            /\ pc' = "deny"
               ELSE /\ trace' = Append(trace, "find")
                    /\ result' = result
                    /\ pc' = "deny"
          ELSE /\ trace' = trace
               /\ result' = result
               /\ pc' = "deny"
    /\ UNCHANGED <<store, beyond, args, currentProjectId, error>>

\* Variant: the role tested is the one of the user's first entry.
RoleEvalFirstEntry ==
    /\ pc = "roleEval"
    /\ LET items == args.user.projectRoles.items
       IN IF Truthy(currentProjectId)
          THEN IF Len(items) > 0
               THEN /\ trace' = trace \o <<"find", "rolesWithScope:project">>
                    /\ IF items[1].role \in rolesWithScope("project", args.scopes)
                       THEN /\ result' = "GRANTED"
                            /\ pc' = "done"
                       ELSE /\ result' = result
                            /\ pc' = "deny"
               ELSE /\ trace' = Append(trace, "find")
                    /\ result' = result
                    /\ pc' = "deny"
          ELSE /\ trace' = trace
               /\ result' = result
               /\ pc' = "deny"
    /\ UNCHANGED <<store, beyond, args, currentProjectId, error>>

\* Lines 49-62: the role the user holds in the resolved project.
RoleEval ==
    /\ pc = "roleEval"
    /\ LET items == args.user.projectRoles.items
           idx == FindIndex(items, currentProjectId)
       IN IF Truthy(currentProjectId)
          THEN IF idx # 0
               THEN /\ trace' = trace \o <<"find", "rolesWithScope:project">>
                    /\ IF items[idx].role \in rolesWithScope("project", args.scopes)
                       THEN /\ result' = "GRANTED"
                            /\ pc' = "done"
                       ELSE /\ result' = result
                            /\ pc' = "deny"
               ELSE /\ trace' = Append(trace, "find")
                    /\ result' = result
                    /\ pc' = "deny"
          ELSE /\ trace' = trace
               /\ result' = result
               /\ pc' = "deny"
    /\ UNCHANGED <<store, beyond, args, currentProjectId, error>>

\* Variant: the fall-through always throws.
DenyAlwaysThrows ==
    /\ pc = "deny"
    /\ result' = "ERROR"
    /\ error' = "UnexpectedError"
    /\ pc' = "done"
    /\ UNCHANGED <<store, beyond, args, currentProjectId, trace>>

\* Variant: the fall-through always returns false.
DenyNeverThrows ==
    /\ pc = "deny"
    /\ result' = "DENIED"
    /\ error' = error
    /\ pc' = "done"
    /\ UNCHANGED <<store, beyond, args, currentProjectId, trace>>

\* Variant: an identifier counts as passed unless it is undefined.
DenyTestsUndefined ==
    /\ pc = "deny"
    /\ IF args.projectId # Undefined \/ args.workflowId # Undefined
          \/ args.credentialId # Undefined
       THEN /\ result' = "DENIED"
            /\ error' = error
       ELSE /\ result' = "ERROR"
            /\ error' = "UnexpectedError"
    /\ pc' = "done"
    /\ UNCHANGED <<store, beyond, args, currentProjectId, trace>>

\* Lines 112-120: deny when an identifier was passed, else throw UnexpectedError.
Deny ==
    /\ pc = "deny"
    /\ IF Truthy(args.projectId) \/ Truthy(args.workflowId) \/ Truthy(args.credentialId)
       THEN /\ result' = "DENIED"
            /\ error' = error
       ELSE /\ result' = "ERROR"
            /\ error' = "UnexpectedError"
    /\ pc' = "done"
    /\ UNCHANGED <<store, beyond, args, currentProjectId, trace>>

\* The promise settles and the caller consumes the outcome.
Return ==
    /\ pc = "done"
    /\ pc' = "idle"
    /\ args' = NoArgs
    /\ currentProjectId' = Undefined
    /\ result' = "NONE"
    /\ error' = "none"
    /\ trace' = <<>>
    /\ prev' = NoPrev
    /\ UNCHANGED <<store, svc, other, colleagues, ctl, lastCall>>

\* ------------------------------------------------------------ UserService
\* The evaluation in progress reads only its own user argument, so the
\* service calls are taken between evaluations.
frame == <<pc, args, currentProjectId, result, error, trace, prev, other, colleagues, ctl>>

\* NotFoundError message for a user id the repository does not hold.
NotFoundMessage(id) == <<"User with ID \"", id, "\" not found">>

\* The answer to a call whose user id the repository does not hold.
UserNotFound(op, userId, projectId, role) ==
    [op |-> op, userId |-> userId, projectId |-> projectId, role |-> role,
     before |-> user.projectRoles.items, outcome |-> "NotFoundError",
     message |-> NotFoundMessage(userId), returned |-> <<>>]

\* The answer to a call that succeeded, returning the role list.
Answered(op, userId, projectId, role, returned) ==
    [op |-> op, userId |-> userId, projectId |-> projectId, role |-> role,
     before |-> user.projectRoles.items, outcome |-> "ok",
     message |-> <<>>, returned |-> returned]

\* The list without its entries for project p, order kept.
RECURSIVE WithoutProject(_, _)
WithoutProject(items, p) ==
    IF items = <<>> THEN <<>>
    ELSE IF Head(items).projectId = p THEN WithoutProject(Tail(items), p)
    ELSE <<Head(items)>> \o WithoutProject(Tail(items), p)

\* The list after assigning role r in project p: the existing entry's role
\* is replaced, or a new entry is added at the end.
WithRole(items, p, r) ==
    LET idx == FindIndex(items, p)
    IN IF idx # 0
       THEN [items EXCEPT ![idx].role = r]
       ELSE Append(items, [projectId |-> p, role |-> r])

\* Variant: the entry is always pushed, also when the project has one.
AssignProjectRoleAppends ==
    /\ pc = "idle" /\ other = IdleFrame /\ svc = NoCall /\ ctl = NoRequest
    /\ \E userId \in UserIds, p \in Projects, r \in ProjectRoleNames :
          IF userId # StoredUserId
          THEN /\ svc' = UserNotFound("assignProjectRole", userId, p, r)
               /\ user' = user
               /\ lastCall' = lastCall
          ELSE LET items == Append(user.projectRoles.items, [projectId |-> p, role |-> r])
               IN /\ Len(user.projectRoles.items) < MaxRoles
                  /\ user' = [user EXCEPT !.projectRoles = [null |-> FALSE, items |-> items]]
                  /\ svc' = Answered("assignProjectRole", userId, p, r, items)
                  /\ lastCall' = Assigned(p, r)
    /\ UNCHANGED <<sharedWorkflow, sharedCredential, frame>>

\* Variant: a new entry is put at the front of the list.
AssignProjectRolePrepends ==
    /\ pc = "idle" /\ other = IdleFrame /\ svc = NoCall /\ ctl = NoRequest
    /\ \E userId \in UserIds, p \in Projects, r \in ProjectRoleNames :
          IF userId # StoredUserId
          THEN /\ svc' = UserNotFound("assignProjectRole", userId, p, r)
               /\ user' = user
               /\ lastCall' = lastCall
          ELSE LET old == user.projectRoles.items
                   idx == FindIndex(old, p)
                   items == IF idx # 0 THEN [old EXCEPT ![idx].role = r]
                            ELSE <<[projectId |-> p, role |-> r]>> \o old
               IN /\ idx = 0 => Len(old) < MaxRoles
                  /\ user' = [user EXCEPT !.projectRoles = [null |-> FALSE, items |-> items]]
                  /\ svc' = Answered("assignProjectRole", userId, p, r, items)
                  /\ lastCall' = Assigned(p, r)
    /\ UNCHANGED <<sharedWorkflow, sharedCredential, frame>>

\* userService.assignProjectRole(userId, projectId, role)
AssignProjectRole ==
    /\ pc = "idle" /\ other = IdleFrame /\ svc = NoCall /\ ctl = NoRequest
    /\ \E userId \in UserIds, p \in Projects, r \in ProjectRoleNames :
          IF userId # StoredUserId
          THEN /\ svc' = UserNotFound("assignProjectRole", userId, p, r)
               /\ user' = user
               /\ lastCall' = lastCall
          ELSE LET items == WithRole(user.projectRoles.items, p, r)
               IN /\ Len(items) <= MaxRoles
                  /\ user' = [user EXCEPT !.projectRoles = [null |-> FALSE, items |-> items]]
                  /\ svc' = Answered("assignProjectRole", userId, p, r, items)
                  /\ lastCall' = Assigned(p, r)
    /\ UNCHANGED <<sharedWorkflow, sharedCredential, frame>>

\* Variant: the filter keeps the project's entry and drops the others.
RevokeProjectRoleKeepsOnlyProject ==
    /\ pc = "idle" /\ other = IdleFrame /\ svc = NoCall /\ ctl = NoRequest
    /\ \E userId \in UserIds, p \in Projects :
          IF userId # StoredUserId
          THEN /\ svc' = UserNotFound("revokeProjectRole", userId, p, "")
               /\ user' = user
               /\ lastCall' = lastCall
          ELSE LET old == user.projectRoles.items
                   idx == FindIndex(old, p)
                   items == IF idx # 0 THEN <<old[idx]>> ELSE <<>>
               IN /\ user' = [user EXCEPT !.projectRoles = [null |-> FALSE, items |-> items]]
                  /\ svc' = Answered("revokeProjectRole", userId, p, "", items)
                  /\ lastCall' = Revoked(p)
    /\ UNCHANGED <<sharedWorkflow, sharedCredential, frame>>

\* userService.revokeProjectRole(userId, projectId). For a null projectRoles
\* the saved value is null or [].
RevokeProjectRole ==
    /\ pc = "idle" /\ other = IdleFrame /\ svc = NoCall /\ ctl = NoRequest
    /\ \E userId \in UserIds, p \in Projects :
          IF userId # StoredUserId
          THEN /\ svc' = UserNotFound("revokeProjectRole", userId, p, "")
               /\ user' = user
               /\ lastCall' = lastCall
          ELSE LET items == WithoutProject(user.projectRoles.items, p)
               IN /\ \E keepNull \in {user.projectRoles.null, FALSE} :
                        user' = [user EXCEPT !.projectRoles =
                                    [null |-> keepNull, items |-> items]]
                  /\ svc' = Answered("revokeProjectRole", userId, p, "", items)
                  /\ lastCall' = Revoked(p)
    /\ UNCHANGED <<sharedWorkflow, sharedCredential, frame>>

\* Variant: a missing user is answered with an empty role list.
GetProjectRolesMissingIsEmpty ==
    /\ pc = "idle" /\ other = IdleFrame /\ svc = NoCall /\ ctl = NoRequest
    /\ \E userId \in UserIds :
          svc' = Answered("getProjectRoles", userId, "", "",
                          IF userId = StoredUserId THEN user.projectRoles.items ELSE <<>>)
    /\ UNCHANGED <<store, frame, lastCall>>

\* userService.getProjectRoles(userId): the list, [] for null.
GetProjectRoles ==
    /\ pc = "idle" /\ other = IdleFrame /\ svc = NoCall /\ ctl = NoRequest
    /\ \E userId \in UserIds :
          IF userId # StoredUserId
          THEN svc' = UserNotFound("getProjectRoles", userId, "", "")
          ELSE svc' = Answered("getProjectRoles", userId, "", "", user.projectRoles.items)
    /\ UNCHANGED <<store, frame, lastCall>>

\* Ids of the other user rows, and the values the optional role filter takes.
ColleagueIds == <<"userId2", "userId3">>
RoleFilters == {Undefined, "nonExistentRole"} \cup ProjectRoleNames

\* userRepository.find(): every user row, the stored user first.
AllUsers == <<[id |-> StoredUserId, projectRoles |-> user.projectRoles]>> \o colleagues

\* The ids of a list of user rows, order kept.
Ids(users) == [i \in 1..Len(users) |-> users[i].id]

\* Variant: the role filter is met by an entry of any project.
GetUsersInProjectRoleAnywhere ==
    /\ pc = "idle" /\ other = IdleFrame /\ svc = NoCall /\ ctl = NoRequest
    /\ \E p \in Projects, r \in RoleFilters :
          LET Keeps(u) ==
                  /\ \E i \in 1..Len(u.projectRoles.items) :
                        u.projectRoles.items[i].projectId = p
                  /\ Truthy(r) =>
                        \E i \in 1..Len(u.projectRoles.items) :
                            u.projectRoles.items[i].role = r
          IN svc' = Answered("getUsersInProject", "", p, r, Ids(SelectSeq(AllUsers, Keeps)))
    /\ UNCHANGED <<store, frame, lastCall>>

\* userService.getUsersInProject(projectId, role?): the users holding an
\* entry for the project, with the given role when one is given.
GetUsersInProject ==
    /\ pc = "idle" /\ other = IdleFrame /\ svc = NoCall /\ ctl = NoRequest
    /\ \E p \in Projects, r \in RoleFilters :
          LET Keeps(u) ==
                  \E i \in 1..Len(u.projectRoles.items) :
                      /\ u.projectRoles.items[i].projectId = p
                      /\ Truthy(r) => u.projectRoles.items[i].role = r
          IN svc' = Answered("getUsersInProject", "", p, r, Ids(SelectSeq(AllUsers, Keeps)))
    /\ UNCHANGED <<store, frame, lastCall>>

\* --------------------------------------------------------- UsersController
\* The event each handler emits.
EventOf(handler) ==
    IF handler = "assignProjectRoleController"
    THEN "user-project-role-assigned"
    ELSE "user-project-role-revoked"

\* A handler awaiting the service call it made.
Awaiting(handler, call, userId, p, r, settled) ==
    [handler |-> handler, targetUserId |-> userId, projectId |-> p, role |-> r,
     log |-> <<call>>, service |-> settled, emitted |-> <<>>, outcome |-> "none",
     response |-> <<>>]

\* assignProjectRoleController(req, targetUserId, projectId, payload) up to
\* its await of userService.assignProjectRole.
AssignProjectRoleController ==
    /\ pc = "idle" /\ other = IdleFrame /\ svc = NoCall /\ ctl = NoRequest
    /\ \E userId \in UserIds, p \in Projects, r \in ProjectRoleNames :
          LET Request(settled) ==
                  Awaiting("assignProjectRoleController", "userService.assignProjectRole",
                           userId, p, r, settled)
          IN IF userId # StoredUserId
             THEN /\ ctl' = Request("NotFoundError")
                  /\ user' = user
                  /\ lastCall' = lastCall
             ELSE LET items == WithRole(user.projectRoles.items, p, r)
                  IN /\ Len(items) <= MaxRoles
                     /\ user' = [user EXCEPT !.projectRoles = [null |-> FALSE, items |-> items]]
                     /\ ctl' = Request("ok")
                     /\ lastCall' = Assigned(p, r)
    /\ UNCHANGED <<sharedWorkflow, sharedCredential, pc, args, currentProjectId,
                   result, error, trace, prev, svc, other, colleagues>>

\* revokeProjectRoleController(req, targetUserId, projectId) up to its await
\* of userService.revokeProjectRole.
RevokeProjectRoleController ==
    /\ pc = "idle" /\ other = IdleFrame /\ svc = NoCall /\ ctl = NoRequest
    /\ \E userId \in UserIds, p \in Projects :
          LET Request(settled) ==
                  Awaiting("revokeProjectRoleController", "userService.revokeProjectRole",
                           userId, p, "", settled)
          IN IF userId # StoredUserId
             THEN /\ ctl' = Request("NotFoundError")
                  /\ user' = user
                  /\ lastCall' = lastCall
             ELSE /\ \E keepNull \in {user.projectRoles.null, FALSE} :
                        user' = [user EXCEPT !.projectRoles =
                                    [null |-> keepNull,
                                     items |-> WithoutProject(user.projectRoles.items, p)]]
                  /\ ctl' = Request("ok")
                  /\ lastCall' = Revoked(p)
    /\ UNCHANGED <<sharedWorkflow, sharedCredential, pc, args, currentProjectId,
                   result, error, trace, prev, svc, other, colleagues>>

\* The event a handler emits for the request it is handling.
Emitted ==
    [name |-> EventOf(ctl.handler), targetUserId |-> ctl.targetUserId,
     projectId |-> ctl.projectId, role |-> ctl.role]

\* Variant: the event is emitted whatever the service call settled with.
ControllerContinueEmitsAlways ==
    /\ ctl.handler # "none"
    /\ ctl.outcome = "none"
    /\ IF ctl.service = "ok"
       THEN ctl' = [ctl EXCEPT
                      !.log = ctl.log \o <<"eventService.emit", "userService.toPublic">>,
                      !.emitted = <<Emitted>>,
                      !.outcome = "responded",
                      !.response = user.projectRoles.items]
       ELSE ctl' = [ctl EXCEPT
                      !.log = Append(ctl.log, "eventService.emit"),
                      !.emitted = <<Emitted>>,
                      !.outcome = ctl.service]
    /\ UNCHANGED <<store, pc, args, currentProjectId, result, error, trace,
                   prev, svc, other, colleagues, lastCall>>

\* The handler after its await: a rejection propagates to the caller; a
\* resolved call is followed by the event and the public user as response.
ControllerContinue ==
    /\ ctl.handler # "none"
    /\ ctl.outcome = "none"
    /\ IF ctl.service = "ok"
       THEN ctl' = [ctl EXCEPT
                      !.log = ctl.log \o <<"eventService.emit", "userService.toPublic">>,
                      !.emitted = <<Emitted>>,
                      !.outcome = "responded",
                      !.response = user.projectRoles.items]
       ELSE ctl' = [ctl EXCEPT !.outcome = ctl.service]
    /\ UNCHANGED <<store, pc, args, currentProjectId, result, error, trace,
                   prev, svc, other, colleagues, lastCall>>

\* The request is answered.
ControllerReturn ==
    /\ ctl.outcome # "none"
    /\ ctl' = NoRequest
    /\ UNCHANGED <<store, pc, args, currentProjectId, result, error, trace,
                   prev, svc, other, colleagues, lastCall>>

\* The caller of the service consumes the answer.
ServiceReturn ==
    /\ svc # NoCall
    /\ svc' = NoCall
    /\ UNCHANGED <<store, frame, lastCall>>

\* ------------------------------------------- a concurrent second evaluation
\* Arguments of the second evaluation: a request on a workflow and/or a
\* credential for scopes the member role does not grant globally.
OtherArgs ==
    {[user |-> user, scopes |-> {"s1", "s2"}, globalOnly |-> FALSE,
      projectId |-> Undefined, workflowId |-> w, credentialId |-> c] :
        w \in {Undefined} \cup WorkflowIds, c \in {Undefined} \cup CredentialIds}

\* Lines 27-120 as one step of an evaluation frame f, its lookups answering.
StepFrame(f) ==
    LET a == f.args
        items == a.user.projectRoles.items
        idx == FindIndex(items, f.currentProjectId)
    IN CASE f.pc = "start" ->
              IF hasGlobalScope(a.user, a.scopes)
              THEN [f EXCEPT !.pc = "done", !.result = "GRANTED"]
              ELSE IF a.globalOnly
                   THEN [f EXCEPT !.pc = "done", !.result = "DENIED"]
                   ELSE [f EXCEPT !.pc = "projectRoles"]
         [] f.pc = "projectRoles" ->
              IF ~a.user.projectRoles.null /\ Len(items) > 0
              THEN [f EXCEPT !.pc = "workflow", !.currentProjectId = a.projectId]
              ELSE [f EXCEPT !.pc = "deny"]
         [] f.pc = "workflow" ->
              IF ~Truthy(f.currentProjectId) /\ Truthy(a.workflowId)
                 /\ sharedWorkflow[a.workflowId] # NoRecord
              THEN [f EXCEPT !.pc = "credential",
                             !.currentProjectId = sharedWorkflow[a.workflowId]]
              ELSE [f EXCEPT !.pc = "credential"]
         [] f.pc = "credential" ->
              IF ~Truthy(f.currentProjectId) /\ Truthy(a.credentialId)
                 /\ sharedCredential[a.credentialId] # NoRecord
              THEN [f EXCEPT !.pc = "roleEval",
                             !.currentProjectId = sharedCredential[a.credentialId]]
              ELSE [f EXCEPT !.pc = "roleEval"]
         [] f.pc = "roleEval" ->
              IF Truthy(f.currentProjectId) /\ idx # 0
                 /\ items[idx].role \in rolesWithScope("project", a.scopes)
              THEN [f EXCEPT !.pc = "done", !.result = "GRANTED"]
              ELSE [f EXCEPT !.pc = "deny"]
         [] f.pc = "deny" ->
              IF Truthy(a.projectId) \/ Truthy(a.workflowId) \/ Truthy(a.credentialId)
              THEN [f EXCEPT !.pc = "done", !.result = "DENIED"]
              ELSE [f EXCEPT !.pc = "done", !.result = "ERROR",
                             !.error = "UnexpectedError"]
         [] OTHER -> f

\* The second caller invokes userHasScopes.
OtherInvoke ==
    /\ other.pc = "idle"
    /\ svc = NoCall
    /\ \E a \in OtherArgs : other' = [IdleFrame EXCEPT !.pc = "start", !.args = a]
    /\ UNCHANGED <<store, pc, args, currentProjectId, result, error, trace, prev, svc, colleagues, ctl, lastCall>>

\* Variant: currentProjectId is one variable shared by all evaluations.
OtherStepSharedProject ==
    /\ other.pc \notin {"idle", "done"}
    /\ other' = StepFrame(other)
    /\ currentProjectId' =
         IF other.pc \in {"workflow", "credential"} /\ pc \notin {"idle", "done"}
         THEN other'.currentProjectId
         ELSE currentProjectId
    /\ UNCHANGED <<store, pc, args, result, error, trace, prev, svc, colleagues, ctl, lastCall>>

\* The second evaluation takes its next step.
OtherStep ==
    /\ other.pc \notin {"idle", "done"}
    /\ other' = StepFrame(other)
    /\ UNCHANGED <<store, pc, args, currentProjectId, result, error, trace, prev, svc, colleagues, ctl, lastCall>>

\* The second evaluation's promise settles.
OtherReturn ==
    /\ other.pc = "done"
    /\ other' = IdleFrame
    /\ UNCHANGED <<store, pc, args, currentProjectId, result, error, trace, prev, svc, colleagues, ctl, lastCall>>

Next ==
    \/ Invoke
    \/ InvokeAgain
    \/ GlobalCheck
    \/ EnterProjectRoles
    \/ WorkflowLookup
    \/ WorkflowLookupFails
    \/ CredentialLookup
    \/ CredentialLookupFails
    \/ RoleEval
    \/ Deny
    \/ Return
    \/ AssignProjectRole
    \/ RevokeProjectRole
    \/ GetProjectRoles
    \/ GetUsersInProject
    \/ ServiceReturn
    \/ AssignProjectRoleController
    \/ RevokeProjectRoleController
    \/ ControllerContinue
    \/ ControllerReturn

Spec == Init /\ [][Next]_vars

\* Two evaluations of a member's requests interleaving over an unchanged store.
InitConcurrent == Init /\ user.role = "global:member"

NextConcurrent ==
    \/ Invoke
    \/ GlobalCheck
    \/ EnterProjectRoles
    \/ WorkflowLookup
    \/ WorkflowLookupFails
    \/ CredentialLookup
    \/ CredentialLookupFails
    \/ RoleEval
    \/ Deny
    \/ Return
    \/ OtherInvoke
    \/ OtherStep
    \/ OtherReturn

SpecConcurrent == InitConcurrent /\ [][NextConcurrent]_vars

\* The repository holds several users; the service is called on it.
ColleagueLists ==
    {<<[id |-> ColleagueIds[1], projectRoles |-> a],
       [id |-> ColleagueIds[2], projectRoles |-> b]>> :
        a \in ProjectRolesValues, b \in ProjectRolesValues}

InitUsers ==
    /\ user \in Users
    /\ user.role = "global:member"
    /\ sharedWorkflow = [w \in WorkflowIds |-> NoRecord]
    /\ sharedCredential = [c \in CredentialIds |-> NoRecord]
    /\ pc = "idle"
    /\ args = NoArgs
    /\ currentProjectId = Undefined
    /\ result = "NONE"
    /\ error = "none"
    /\ trace = <<>>
    /\ prev = NoPrev
    /\ svc = NoCall
    /\ other = IdleFrame
    /\ colleagues \in ColleagueLists
    /\ ctl = NoRequest
    /\ lastCall = NotRecorded

NextUsers ==
    \/ AssignProjectRole
    \/ RevokeProjectRole
    \/ GetUsersInProject
    \/ ServiceReturn

SpecUsers == InitUsers /\ [][NextUsers]_vars

\* Evaluations of a member's requests whose continuations are always run:
\* every pending step of userHasScopes is eventually taken, a lookup
\* answering or rejecting.
Step ==
    \/ GlobalCheck
    \/ EnterProjectRoles
    \/ WorkflowLookup
    \/ WorkflowLookupFails
    \/ CredentialLookup
    \/ CredentialLookupFails
    \/ RoleEval
    \/ Deny

NextFair ==
    \/ Invoke
    \/ GlobalCheck
    \/ EnterProjectRoles
    \/ WorkflowLookup
    \/ WorkflowLookupFails
    \/ CredentialLookup
    \/ CredentialLookupFails
    \/ RoleEval
    \/ Deny
    \/ Return

SpecFair == InitConcurrent /\ [][NextFair]_vars /\ WF_vars(Step)

\* The guard is handed user objects whose projectRoles array is arbitrary:
\* a project may occur in several entries.
AnyRolesValues == {NullRoles} \cup {[null |-> FALSE, items |-> l] : l \in ListsUpTo(MaxRoles)}

InitDuplicates ==
    /\ user \in [role : {"global:member"}, projectRoles : AnyRolesValues]
    /\ sharedWorkflow \in [WorkflowIds -> Projects \cup {NoRecord}]
    /\ sharedCredential \in [CredentialIds -> Projects \cup {NoRecord}]
    /\ pc = "idle"
    /\ args = NoArgs
    /\ currentProjectId = Undefined
    /\ result = "NONE"
    /\ error = "none"
    /\ trace = <<>>
    /\ prev = NoPrev
    /\ svc = NoCall
    /\ other = IdleFrame
    /\ colleagues = <<>>
    /\ ctl = NoRequest
    /\ lastCall = NotRecorded

NextDuplicates ==
    \/ Invoke
    \/ GlobalCheck
    \/ EnterProjectRoles
    \/ WorkflowLookup
    \/ WorkflowLookupFails
    \/ CredentialLookup
    \/ CredentialLookupFails
    \/ RoleEval
    \/ Deny
    \/ Return

SpecDuplicates == InitDuplicates /\ [][NextDuplicates]_vars

\* Role changes followed by evaluations of the member's requests on
\* projects, the history of the calls kept.
InitLifecycle ==
    /\ user \in Users
    /\ user.role = "global:member"
    /\ sharedWorkflow = [w \in WorkflowIds |-> NoRecord]
    /\ sharedCredential = [c \in CredentialIds |-> NoRecord]
    /\ pc = "idle"
    /\ args = NoArgs
    /\ currentProjectId = Undefined
    /\ result = "NONE"
    /\ error = "none"
    /\ trace = <<>>
    /\ prev = NoPrev
    /\ svc = NoCall
    /\ other = IdleFrame
    /\ colleagues = <<>>
    /\ ctl = NoRequest
    /\ lastCall = [kept |-> TRUE, calls |-> NoCalls]

NextLifecycle ==
    \/ AssignProjectRole
    \/ RevokeProjectRole
    \/ ServiceReturn
    \/ Invoke
    \/ GlobalCheck
    \/ EnterProjectRoles
    \/ WorkflowLookup
    \/ WorkflowLookupFails
    \/ CredentialLookup
    \/ CredentialLookupFails
    \/ RoleEval
    \/ Deny
    \/ Return

SpecLifecycle == InitLifecycle /\ [][NextLifecycle]_vars

TypeOK ==
    /\ user \in Users
    /\ pc \in {"idle", "start", "projectRoles", "workflow", "credential",
               "roleEval", "deny", "done"}
    /\ result \in {"NONE", "GRANTED", "DENIED", "ERROR"}
    /\ error \in {"none", "UnexpectedError", "LookupError"}
    /\ currentProjectId \in OptionalIds(Projects)

\* ------------------------------------------------- vocabulary of the claims
Running == pc # "idle"
Done == pc = "done"

\* The global role of the evaluated user grants every required scope.
GlobalOk == args.scopes \subseteq GlobalRoleScopes[args.user.role]

Items == args.user.projectRoles.items

\* Project roles granting every required scope, per the 'project' table.
GrantingRoles ==
    {r \in ProjectRoleNames : args.scopes \subseteq ResourceRoleScopes.project[r]}

\* The user's projectRoles holds an entry for p with a granting role.
HoldsGrantingRole(p) ==
    \E i \in 1..Len(Items) : Items[i].projectId = p /\ Items[i].role \in GrantingRoles

\* An identifier was passed (a non-empty string).
Supplied(x) == x \notin {Undefined, ""}

AnySupplied ==
    Supplied(args.projectId) \/ Supplied(args.workflowId) \/ Supplied(args.credentialId)

WorkflowLookups == {i \in DOMAIN trace : trace[i] = "findSharedWorkflow"}
CredentialLookups == {i \in DOMAIN trace : trace[i] = "findSharedCredential"}
NoLookups == WorkflowLookups = {} /\ CredentialLookups = {}

\* ------------------------------------- the decision procedure of the design
\* Resolution yields no project.
Unresolved == "unresolved"

\* Resource-to-project resolution: an explicit projectId; else, for a
\* workflowId, the project of its sharing record or none; else, for a
\* credentialId, the project of its sharing record or none; else none.
ResolveProject(a) ==
    IF a.projectId \notin {Undefined, ""} THEN a.projectId
    ELSE IF a.workflowId \notin {Undefined, ""}
         THEN IF sharedWorkflow[a.workflowId] # NoRecord
              THEN sharedWorkflow[a.workflowId] ELSE Unresolved
    ELSE IF a.credentialId \notin {Undefined, ""}
         THEN IF sharedCredential[a.credentialId] # NoRecord
              THEN sharedCredential[a.credentialId] ELSE Unresolved
    ELSE Unresolved

\* Project-role scope evaluation: the role of the first entry for the
\* project is among the roles granting every scope; a null list is empty.
EvaluateRole(a, p) ==
    LET list == IF a.user.projectRoles.null THEN <<>> ELSE a.user.projectRoles.items
        held == {i \in 1..Len(list) : list[i].projectId = p}
    IN /\ held # {}
       /\ \E i \in held :
             /\ \A j \in held : i <= j
             /\ a.scopes \subseteq ResourceRoleScopes.project[list[i].role]

\* Orchestration: START -> GLOBAL_CHECKED -> RESOLVING_PROJECT ->
\* ROLE_EVALUATED, ending in GRANTED, DENIED or ERROR.
Decision(a) ==
    IF a.scopes \subseteq GlobalRoleScopes[a.user.role]
    THEN [result |-> "GRANTED", error |-> "none"]
    ELSE IF a.globalOnly
    THEN [result |-> "DENIED", error |-> "none"]
    ELSE LET p == ResolveProject(a)
         IN IF p # Unresolved
            THEN [result |-> IF EvaluateRole(a, p) THEN "GRANTED" ELSE "DENIED",
                  error |-> "none"]
            ELSE IF \E x \in {a.projectId, a.workflowId, a.credentialId} :
                        x \notin {Undefined, ""}
            THEN [result |-> "DENIED", error |-> "none"]
            ELSE [result |-> "ERROR", error |-> "UnexpectedError"]

\* --------------------------------------------------------------- claims
\* C1: when the global role grants all required scopes the evaluation goes
\* from the global check straight to GRANTED, whatever identifiers,
\* globalOnly and projectRoles are, and it raises no error.
C1_GlobalScopeGrants ==
    (Running /\ GlobalOk) =>
        /\ pc \in {"start", "done"}
        /\ Done => (result = "GRANTED" /\ error = "none")

C1_Witness ==
    /\ Done /\ GlobalOk /\ result = "GRANTED"
    /\ args.globalOnly
    /\ ~AnySupplied
    /\ args.user.projectRoles.null

\* C2: with globalOnly set and the global check failing, the evaluation ends
\* DENIED right after the global check and performs no workflow-sharing and
\* no credential-sharing lookup, even if projectRoles would grant.
C2_GlobalOnlyDenies ==
    (Running /\ args.globalOnly /\ ~GlobalOk) =>
        /\ pc \in {"start", "done"}
        /\ NoLookups
        /\ Done => (result = "DENIED" /\ error = "none")

C2_Witness ==
    /\ Done /\ args.globalOnly /\ ~GlobalOk /\ result = "DENIED"
    /\ Supplied(args.projectId) /\ HoldsGrantingRole(args.projectId)
    /\ Supplied(args.workflowId)

\* C3: global check failing, globalOnly false and no identifier passed: the
\* evaluation ends in ERROR with the UnexpectedError, for null, empty and
\* non-empty projectRoles alike.
C3_NoIdentifierThrows ==
    (Done /\ ~GlobalOk /\ ~args.globalOnly
          /\ args.projectId = Undefined /\ args.workflowId = Undefined
          /\ args.credentialId = Undefined) =>
        (result = "ERROR" /\ error = "UnexpectedError")

C3_Witness ==
    /\ Done /\ ~GlobalOk /\ ~args.globalOnly
    /\ args.projectId = Undefined /\ args.workflowId = Undefined
    /\ args.credentialId = Undefined
    /\ Len(Items) > 0
    /\ result = "ERROR"

C5_ExplicitProjectIff ==
    (Done /\ ~GlobalOk /\ ~args.globalOnly /\ Supplied(args.projectId)) =>
        /\ result \in {"GRANTED", "DENIED"}
        /\ result = "GRANTED" <=> HoldsGrantingRole(args.projectId)

C5_Witness ==
    /\ Done /\ ~GlobalOk /\ ~args.globalOnly /\ Supplied(args.projectId)
    /\ \E i \in 1..Len(Items) :
          Items[i].projectId = args.projectId /\ Items[i].role \notin GrantingRoles
    /\ \E i \in 1..Len(Items) :
          Items[i].projectId # args.projectId /\ Items[i].role \in GrantingRoles
    /\ result = "DENIED"

\* The project the evaluation is about: the explicit projectId, else the
\* project of the workflow's sharing record, else that of the credential's.
ResolvedProject ==
    IF Supplied(args.projectId) THEN args.projectId
    ELSE IF Supplied(args.workflowId) /\ sharedWorkflow[args.workflowId] # NoRecord
         THEN sharedWorkflow[args.workflowId]
    ELSE IF Supplied(args.credentialId) /\ sharedCredential[args.credentialId] # NoRecord
         THEN sharedCredential[args.credentialId]
    ELSE Undefined

\* C6: project isolation: with the global check failing, a grant is only
\* ever produced by an entry for the resolved project itself, be it passed
\* explicitly or derived from a workflow or credential lookup; roles held
\* in other projects never grant.
C6_ProjectIsolation ==
    (Done /\ ~GlobalOk /\ result = "GRANTED") =>
        /\ currentProjectId = ResolvedProject
        /\ \E i \in 1..Len(Items) :
              Items[i].projectId = ResolvedProject /\ Items[i].role \in GrantingRoles

C6_Witness ==
    /\ Done /\ ~GlobalOk /\ ~args.globalOnly
    /\ ~Supplied(args.projectId) /\ Supplied(args.workflowId)
    /\ ResolvedProject = "P1" /\ currentProjectId = "P1"
    /\ HoldsGrantingRole("P2") /\ ~HoldsGrantingRole("P1")
    /\ result = "DENIED"

OnlyWorkflowId ==
    Supplied(args.workflowId) /\ ~Supplied(args.projectId) /\ ~Supplied(args.credentialId)

OnlyCredentialId ==
    Supplied(args.credentialId) /\ ~Supplied(args.projectId) /\ ~Supplied(args.workflowId)

\* C7: global check failing, globalOnly false, only workflowId W passed and
\* the lookup returning: a record for project P with a granting role held
\* in P gives true; no record gives false, not an error, even when the user
\* holds granting roles in other projects.
C7_WorkflowDerived ==
    (Done /\ ~GlobalOk /\ ~args.globalOnly /\ OnlyWorkflowId /\ error # "LookupError") =>
        LET p == sharedWorkflow[args.workflowId]
        IN /\ (p # NoRecord /\ HoldsGrantingRole(p)) => result = "GRANTED"
           /\ p = NoRecord => (result = "DENIED" /\ error = "none")

C7_Witness ==
    /\ Done /\ ~GlobalOk /\ ~args.globalOnly /\ OnlyWorkflowId
    /\ sharedWorkflow[args.workflowId] = "P2"
    /\ HoldsGrantingRole("P2")
    /\ WorkflowLookups # {}
    /\ result = "GRANTED"

\* C8: global check failing, globalOnly false, only credentialId C passed
\* and the lookup returning: a record for project P with a granting role
\* held in P gives true; no record gives false, not an error.
C8_CredentialDerived ==
    (Done /\ ~GlobalOk /\ ~args.globalOnly /\ OnlyCredentialId /\ error # "LookupError") =>
        LET p == sharedCredential[args.credentialId]
        IN /\ (p # NoRecord /\ HoldsGrantingRole(p)) => result = "GRANTED"
           /\ p = NoRecord => (result = "DENIED" /\ error = "none")

C8_Witness ==
    /\ Done /\ ~GlobalOk /\ ~args.globalOnly /\ OnlyCredentialId
    /\ sharedCredential[args.credentialId] = "P1"
    /\ HoldsGrantingRole("P1")
    /\ CredentialLookups # {}
    /\ result = "GRANTED"

\* C9: projectRoles null or empty and the global check failing: every
\* request passing an identifier ends DENIED, whatever the sharing records
\* hold; no error is raised at any point and null behaves like the empty list.
C9_NullOrEmptyRolesDenied ==
    (Running /\ ~GlobalOk /\ AnySupplied /\ Len(Items) = 0) =>
        /\ error = "none"
        /\ result \in {"NONE", "DENIED"}
        /\ Done => result = "DENIED"

C9_Witness ==
    /\ Done /\ ~GlobalOk /\ ~args.globalOnly
    /\ args.user.projectRoles.null
    /\ OnlyWorkflowId /\ sharedWorkflow[args.workflowId] # NoRecord
    /\ result = "DENIED"

\* C10: precedence: when projectId is passed together with a workflowId or
\* a credentialId, no sharing lookup is performed and the project whose
\* role is evaluated is the explicit projectId.
C10_ExplicitProjectPrecedence ==
    (Running /\ Supplied(args.projectId)
             /\ (Supplied(args.workflowId) \/ Supplied(args.credentialId))) =>
        /\ NoLookups
        /\ pc \in {"credential", "roleEval"} => currentProjectId = args.projectId
        /\ (\E i \in DOMAIN trace : trace[i] = "find") => currentProjectId = args.projectId

C10_Witness ==
    /\ Done /\ Supplied(args.projectId)
    /\ Supplied(args.workflowId) /\ Supplied(args.credentialId)
    /\ sharedWorkflow[args.workflowId] \notin {NoRecord, args.projectId}
    /\ sharedCredential[args.credentialId] \notin {NoRecord, args.projectId}
    /\ \E i \in DOMAIN trace : trace[i] = "find"
    /\ NoLookups

Rejections == {i \in DOMAIN trace : trace[i] = "rejected"}

\* C11: within one evaluation a resolved project id is never replaced, and
\* once the explicit projectId or the workflow lookup has given a project no
\* credential lookup is made: explicit > workflow-derived > credential-derived.
C11_ResolvedOnce ==
    [][ /\ (pc \notin {"idle", "done"} /\ Truthy(currentProjectId))
            => currentProjectId' = currentProjectId
        /\ (pc = "credential" /\ Truthy(currentProjectId) /\ pc' # "idle")
            => trace' = trace ]_vars

C11_Witness ==
    /\ Done /\ ~Supplied(args.projectId)
    /\ Supplied(args.workflowId) /\ Supplied(args.credentialId)
    /\ sharedWorkflow[args.workflowId] = "P1"
    /\ sharedCredential[args.credentialId] = "P2"
    /\ currentProjectId = "P1"
    /\ WorkflowLookups # {} /\ CredentialLookups = {}
    /\ HoldsGrantingRole("P2") /\ result = "DENIED"

\* C13: a sharing lookup that rejects ends the evaluation with that error:
\* no boolean is returned, the lookup is not repeated, no further lookup is
\* made and the error is not replaced by the UnexpectedError.
C13_LookupErrorPropagates ==
    (Rejections # {}) =>
        /\ pc = "done"
        /\ result = "ERROR"
        /\ error = "LookupError"
        /\ Rejections = {Len(trace)}
        /\ Cardinality(WorkflowLookups) <= 1 /\ Cardinality(CredentialLookups) <= 1

C13_Witness ==
    /\ Done /\ Rejections # {}
    /\ WorkflowLookups # {} /\ CredentialLookups # {}
    /\ trace[Len(trace) - 1] = "findSharedCredential"
    /\ result = "ERROR" /\ error = "LookupError"

\* C14: an evaluation makes at most one workflow-sharing lookup and at most
\* one credential-sharing lookup; an empty result is not looked up again.
C14_AtMostOneLookupEach ==
    /\ Cardinality(WorkflowLookups) <= 1
    /\ Cardinality(CredentialLookups) <= 1

C14_Witness ==
    /\ Done /\ ~Supplied(args.projectId)
    /\ Supplied(args.workflowId) /\ Supplied(args.credentialId)
    /\ sharedWorkflow[args.workflowId] = NoRecord
    /\ sharedCredential[args.credentialId] = NoRecord
    /\ Cardinality(WorkflowLookups) = 1
    /\ Cardinality(CredentialLookups) = 1
    /\ result = "DENIED"

\* C12: determinism: a call repeated with the same user, scopes, globalOnly
\* and identifiers over the same grant mapping and sharing records, its
\* lookups answering both times, ends in the same outcome as the first call.
C12_RepeatedCallSameOutcome ==
    (Done /\ prev # NoPrev /\ prev.error # "LookupError" /\ error # "LookupError") =>
        (result = prev.result /\ error = prev.error)

C12_Witness ==
    /\ Done /\ prev.result = "GRANTED" /\ result = "GRANTED"
    /\ ~GlobalOk
    /\ WorkflowLookups # {}

\* C15: no step of an evaluation changes the user's global role or
\* projectRoles, the workflow-sharing records or the credential-sharing
\* records, whether it ends granted, denied or in error.
C15_EvaluationChangesNothing ==
    [][ pc # "idle" =>
          /\ user' = user
          /\ sharedWorkflow' = sharedWorkflow
          /\ sharedCredential' = sharedCredential
          /\ pc' # "idle" => args'.user = args.user ]_vars

C15_Witness ==
    /\ Done /\ ~GlobalOk
    /\ args.user = user
    /\ args.user.projectRoles.null
    /\ result = "ERROR" /\ error = "UnexpectedError"

StoredItems == user.projectRoles.items

AssignAnswered ==
    svc.op = "assignProjectRole" /\ svc.userId = StoredUserId /\ svc.outcome = "ok"

RevokeAnswered ==
    svc.op = "revokeProjectRole" /\ svc.userId = StoredUserId /\ svc.outcome = "ok"

EntryIndexes(items, p) == {i \in 1..Len(items) : items[i].projectId = p}

\* C17: after any sequence of assignProjectRole and revokeProjectRole calls
\* the stored projectRoles holds at most one entry per project; assigning a
\* role in a project that already has an entry replaces that entry's role
\* and adds no entry.
C17_OneRolePerProject ==
    /\ \A p \in Projects : Cardinality(EntryIndexes(StoredItems, p)) <= 1
    /\ (AssignAnswered /\ EntryIndexes(svc.before, svc.projectId) # {}) =>
          /\ Len(StoredItems) = Len(svc.before)
          /\ \A i \in EntryIndexes(StoredItems, svc.projectId) :
                StoredItems[i].role = svc.role

C17_Witness ==
    /\ AssignAnswered
    /\ Len(svc.before) = 2
    /\ \E i \in EntryIndexes(svc.before, svc.projectId) : svc.before[i].role # svc.role
    /\ Len(StoredItems) = 2

\* C18: assignProjectRole for a project the user has no entry for leaves
\* the existing entries unchanged and in order and adds the new entry at
\* the end of projectRoles.
C18_AssignNewProjectAppends ==
    (AssignAnswered /\ EntryIndexes(svc.before, svc.projectId) = {}) =>
        /\ StoredItems = svc.before \o <<[projectId |-> svc.projectId, role |-> svc.role]>>
        /\ svc.returned = StoredItems
        /\ ~user.projectRoles.null

C18_Witness ==
    /\ AssignAnswered
    /\ Len(svc.before) = 1
    /\ svc.before[1].projectId # svc.projectId
    /\ Len(StoredItems) = 2
    /\ StoredItems[2].projectId = svc.projectId

\* C19: revokeProjectRole removes the user's entry for the project and no
\* other: the other entries keep role and order, and with no entry for the
\* project (an empty list included) the list is unchanged and no error is
\* raised.
C19_RevokeRemovesOnlyProject ==
    (svc.op = "revokeProjectRole" /\ svc.userId = StoredUserId) =>
        /\ svc.outcome = "ok"
        /\ StoredItems = SelectSeq(svc.before, LAMBDA e : e.projectId # svc.projectId)
        /\ svc.returned = StoredItems
        /\ EntryIndexes(svc.before, svc.projectId) = {} => StoredItems = svc.before

C19_Witness ==
    /\ RevokeAnswered
    /\ Len(svc.before) = 2
    /\ svc.before[1].projectId = svc.projectId
    /\ StoredItems = <<svc.before[2]>>

\* C20: assignProjectRole, revokeProjectRole and getProjectRoles called
\* with a user id the repository does not hold fail with the error
\* 'User with ID "<id>" not found'; nothing is returned and nothing is saved.
C20_UnknownUserNotFound ==
    (svc.op \in {"assignProjectRole", "revokeProjectRole", "getProjectRoles"}
        /\ svc.userId # StoredUserId) =>
        /\ svc.outcome = "NotFoundError"
        /\ svc.message = <<"User with ID \"", svc.userId, "\" not found">>
        /\ svc.returned = <<>>
        /\ StoredItems = svc.before

C20_Witness ==
    /\ svc.op = "getProjectRoles"
    /\ svc.userId = "unknownId"
    /\ svc.outcome = "NotFoundError"
    /\ Len(StoredItems) > 0

\* The frame an evaluation with arguments a starts from.
StartFrame(a) == [IdleFrame EXCEPT !.pc = "start", !.args = a]

\* The evaluation of a frame run to its end with nothing else running.
RECURSIVE RunAlone(_)
RunAlone(f) == IF f.pc \in {"done", "idle"} THEN f ELSE RunAlone(StepFrame(f))

\* C16: evaluations interleaving at their lookups over an unchanged store
\* each end in the outcome they produce when run alone, and no step of one
\* evaluation changes anything the other one reads.
C16_ConcurrentSameAsAlone ==
    /\ [](/\ (Done /\ error # "LookupError") =>
                /\ result = RunAlone(StartFrame(args)).result
                /\ error = RunAlone(StartFrame(args)).error
          /\ other.pc = "done" =>
                /\ other.result = RunAlone(StartFrame(other.args)).result
                /\ other.error = RunAlone(StartFrame(other.args)).error)
    /\ [][ /\ other' # other =>
                UNCHANGED <<pc, args, currentProjectId, result, error, trace>>
           /\ <<pc, args, currentProjectId, result, error, trace>>'
                 # <<pc, args, currentProjectId, result, error, trace>> =>
                other' = other ]_vars

C16_Witness ==
    /\ Done /\ other.pc = "done"
    /\ WorkflowLookups # {} /\ currentProjectId = "P1"
    /\ other.currentProjectId = "P2"
    /\ ~Supplied(other.args.workflowId)
    /\ result = "GRANTED" /\ other.result = "DENIED"

\* ---------------------------------------------------------------- C21
\* Ids getUsersInProject returned.
ReturnedIds == {svc.returned[i] : i \in 1..Len(svc.returned)}

\* C21: getUsersInProject(P) returns exactly the users whose projectRoles
\* holds an entry for P, and getUsersInProject(P, r) exactly those whose
\* entry for P has role r; a user with null projectRoles, or with entries
\* for other projects only, is never returned, and no user is returned twice.
C21_UsersInProject ==
    svc.op = "getUsersInProject" =>
        /\ Len(svc.returned) = Cardinality(ReturnedIds)
        /\ \A k \in 1..Len(AllUsers) :
              LET u == AllUsers[k]
                  idx == FindIndex(u.projectRoles.items, svc.projectId)
              IN /\ u.id \in ReturnedIds <=>
                       /\ idx # 0
                       /\ svc.role # Undefined => u.projectRoles.items[idx].role = svc.role
                 /\ u.projectRoles.null => u.id \notin ReturnedIds

\* A role-filtered call returns the stored admin of P1 only, although a
\* colleague is editor of P1 and admin of P2 and another has null roles.
C21_Witness ==
    /\ svc.op = "getUsersInProject"
    /\ svc.projectId = "P1" /\ svc.role = "project:admin"
    /\ svc.returned = <<StoredUserId>>
    /\ colleagues[1].projectRoles.items =
           <<[projectId |-> "P1", role |-> "project:editor"],
             [projectId |-> "P2", role |-> "project:admin"]>>
    /\ colleagues[2].projectRoles.null

\* ---------------------------------------------------------------- C22
\* Positions of a call in the request's log.
LogIndexes(call) == {i \in 1..Len(ctl.log) : ctl.log[i] = call}

\* The service call a handler makes.
ServiceCallOf(handler) ==
    IF handler = "assignProjectRoleController"
    THEN "userService.assignProjectRole"
    ELSE "userService.revokeProjectRole"

\* C22: the users controller emits 'user-project-role-assigned' (resp.
\* 'user-project-role-revoked') only after userService.assignProjectRole
\* (resp. revokeProjectRole) has succeeded, once and for the request's user
\* and project; when the service call fails the error propagates to the
\* caller and no event is emitted.
C22_EventOnlyAfterSuccess ==
    /\ Len(ctl.emitted) <= 1
    /\ Cardinality(LogIndexes("eventService.emit")) = Len(ctl.emitted)
    /\ \A i \in 1..Len(ctl.emitted) :
          /\ ctl.service = "ok"
          /\ ctl.emitted[i].name =
                IF ctl.handler = "assignProjectRoleController"
                THEN "user-project-role-assigned"
                ELSE "user-project-role-revoked"
          /\ ctl.emitted[i].targetUserId = ctl.targetUserId
          /\ ctl.emitted[i].projectId = ctl.projectId
          /\ ctl.emitted[i].role = ctl.role
          /\ ctl.targetUserId = StoredUserId
          /\ \A e \in LogIndexes("eventService.emit") :
                \E c \in LogIndexes(ServiceCallOf(ctl.handler)) : c < e
          /\ ctl.handler = "assignProjectRoleController" =>
                \E k \in 1..Len(StoredItems) :
                    StoredItems[k] = [projectId |-> ctl.projectId, role |-> ctl.role]
          /\ ctl.handler = "revokeProjectRoleController" =>
                FindIndex(StoredItems, ctl.projectId) = 0
    /\ ctl.service = "NotFoundError" =>
          /\ ctl.emitted = <<>>
          /\ ctl.outcome \in {"none", "NotFoundError"}
          /\ ctl.response = <<>>
    /\ ctl.outcome = "NotFoundError" => ctl.service = "NotFoundError"

\* A revoke request for an unknown user has ended with the NotFoundError
\* and without any event.
C22_WitnessRejected ==
    /\ ctl.handler = "revokeProjectRoleController"
    /\ ctl.targetUserId # StoredUserId
    /\ ctl.log = <<"userService.revokeProjectRole">>
    /\ ctl.outcome = "NotFoundError"
    /\ ctl.emitted = <<>>

\* An assign request has been answered after its event was emitted.
C22_Witness ==
    /\ ctl.handler = "assignProjectRoleController"
    /\ ctl.outcome = "responded"
    /\ ctl.log = <<"userService.assignProjectRole", "eventService.emit", "userService.toPublic">>
    /\ ctl.emitted = <<[name |-> "user-project-role-assigned", targetUserId |-> StoredUserId,
                        projectId |-> "P2", role |-> "project:editor"]>>
    /\ ctl.response = StoredItems

\* ---------------------------------------------------------------- C23
\* Positions in the trace of the global check and of the role evaluation.
GlobalChecks == {i \in DOMAIN trace : trace[i] = "hasGlobalScope"}
RoleEvaluations == {i \in DOMAIN trace : trace[i] \in {"find", "rolesWithScope:project"}}

\* C23: within one evaluation the global check precedes every sharing
\* lookup, a credential lookup never precedes a workflow lookup, and the
\* role evaluation happens only once project resolution has finished (after
\* every lookup, with the evaluation past the credential step).
C23_StepOrder ==
    /\ trace # <<>> => trace[1] = "hasGlobalScope"
    /\ Cardinality(GlobalChecks) <= 1
    /\ pc \in {"projectRoles", "workflow", "credential", "roleEval", "deny"} =>
          GlobalChecks = {1}
    /\ \A l \in WorkflowLookups \cup CredentialLookups :
          \E g \in GlobalChecks : g < l
    /\ \A w \in WorkflowLookups : \A c \in CredentialLookups : w < c
    /\ \A e \in RoleEvaluations :
          \A l \in WorkflowLookups \cup CredentialLookups : l < e
    /\ RoleEvaluations # {} => pc \in {"deny", "done"}
    /\ pc \in {"start", "projectRoles", "workflow"} => CredentialLookups = {}
    /\ pc \in {"start", "projectRoles"} => WorkflowLookups = {}

\* An evaluation made the global check, the workflow lookup, the credential
\* lookup and the role evaluation, in this order.
C23_Witness ==
    /\ Done
    /\ trace = <<"hasGlobalScope", "findSharedWorkflow", "findSharedCredential",
                 "find", "rolesWithScope:project">>

\* ---------------------------------------------------------------- C24
\* The positions of an evaluation, in the order of the code.
PcOrder == <<"start", "projectRoles", "workflow", "credential", "roleEval", "deny", "done">>
Rank(p) == CHOOSE i \in 1..Len(PcOrder) : PcOrder[i] = p

\* C24: every evaluation whose lookups return (answering or rejecting)
\* reaches a terminal outcome, exactly one of GRANTED, DENIED and ERROR: the
\* outcome is set exactly when the evaluation is done, every step before
\* that moves the evaluation forward, and once done nothing happens to the
\* evaluation but the caller consuming the outcome or calling again.
C24_Terminates ==
    /\ [](pc = "done" <=> result \in {"GRANTED", "DENIED", "ERROR"})
    /\ [](result = "ERROR" <=> error # "none")
    /\ [][pc \notin {"idle", "done"} => Rank(pc') > Rank(pc)]_<<pc, result, error, trace, currentProjectId>>
    /\ [][pc = "done" => /\ pc' \in {"idle", "start"}
                         /\ result' = "NONE" /\ error' = "none"
                         /\ trace' = <<>>]_<<pc, result, error, trace, currentProjectId>>
    /\ (pc = "start") ~> (pc = "done")

\* An evaluation that went through every step has ended DENIED.
C24_Witness ==
    /\ Done /\ result = "DENIED" /\ error = "none"
    /\ Len(trace) = Len(PcOrder) - 3
    /\ WorkflowLookups # {} /\ CredentialLookups # {}

\* ---------------------------------------------------------------- C25
\* Positions in the trace of a rolesWithScope call, whatever its namespace.
GrantTableCalls ==
    {i \in DOMAIN trace : trace[i] \in {"rolesWithScope:project", "rolesWithScope:workflow",
                                        "rolesWithScope:credential"}}

Matches == EntryIndexes(Items, currentProjectId)

\* The first of them.
FirstMatch == CHOOSE i \in Matches : \A j \in Matches : i <= j

\* C26: the role evaluated is that of the first projectRoles entry whose
\* projectId equals the resolved project: when the list holds several
\* entries for that project only the first decides (a later entry with a
\* granting role does not grant), and when no entry matches the grant
\* mapping is not consulted and the evaluation is not granted.
C26_FirstMatchDecides ==
    /\ GrantTableCalls # {} => Matches # {}
    /\ (Done /\ error = "none" /\ RoleEvaluations # {}) =>
          IF Matches = {}
          THEN GrantTableCalls = {} /\ result # "GRANTED"
          ELSE /\ GrantTableCalls # {}
               /\ result = "GRANTED" <=> Items[FirstMatch].role \in GrantingRoles

\* Two entries for the resolved project: the first does not grant, the
\* second would; the evaluation ended DENIED.
C26_Witness ==
    /\ Done /\ result = "DENIED"
    /\ Cardinality(Matches) = 2
    /\ Items[FirstMatch].role \notin GrantingRoles
    /\ \E i \in Matches : Items[i].role \in GrantingRoles

\* ---------------------------------------------------------------- C27
\* The outcome of the evaluation in progress.
Outcome == [result |-> result, error |-> error]

\* A workflowId and a credentialId were passed without a projectId and the
\* workflow has no sharing record.
UnsharedWorkflowWithCredential ==
    /\ ~Supplied(args.projectId)
    /\ Supplied(args.workflowId) /\ Supplied(args.credentialId)
    /\ sharedWorkflow[args.workflowId] = NoRecord

C28_NoRolesNoLookup ==
    /\ (Running /\ (args.user.projectRoles.null \/ Len(Items) = 0)) =>
          /\ NoLookups
          /\ Rejections = {}
          /\ pc \notin {"workflow", "credential", "roleEval"}
    /\ ~NoLookups => (~args.user.projectRoles.null /\ Len(Items) > 0)

\* A user with null projectRoles asked for a shared workflow and a shared
\* credential: the evaluation ended DENIED without any lookup.
C28_Witness ==
    /\ Done /\ result = "DENIED"
    /\ ~GlobalOk /\ ~args.globalOnly
    /\ args.user.projectRoles.null
    /\ Supplied(args.workflowId) /\ Supplied(args.credentialId)
    /\ sharedWorkflow[args.workflowId] # NoRecord
    /\ sharedCredential[args.credentialId] # NoRecord
    /\ trace = <<"hasGlobalScope">>

\* ---------------------------------------------------------------- C29
\* C29: with a workflowId and a credentialId passed, no projectId, and no
\* sharing record for the workflow, the credential lookup is still made and
\* the project of its record is the one evaluated: the request is GRANTED
\* exactly when the user holds a granting role in the credential's project.
C29_CredentialAfterUnsharedWorkflow ==
    (Done /\ ~GlobalOk /\ ~args.globalOnly /\ Len(Items) > 0
          /\ UnsharedWorkflowWithCredential /\ Rejections = {}) =>
        /\ Cardinality(WorkflowLookups) = 1
        /\ Cardinality(CredentialLookups) = 1
        /\ IF sharedCredential[args.credentialId] # NoRecord
           THEN /\ currentProjectId = sharedCredential[args.credentialId]
                /\ result = "GRANTED" <=> HoldsGrantingRole(currentProjectId)
           ELSE /\ ~Truthy(currentProjectId)
                /\ result = "DENIED"

\* The workflow is unshared and the request was GRANTED through the project
\* of the credential.
C29_Witness ==
    /\ Done /\ result = "GRANTED" /\ ~GlobalOk
    /\ UnsharedWorkflowWithCredential
    /\ trace = <<"hasGlobalScope", "findSharedWorkflow", "findSharedCredential",
                 "find", "rolesWithScope:project">>
    /\ currentProjectId = sharedCredential[args.credentialId]

\* ---------------------------------------------------------------- C30
\* The arguments with every empty-string identifier left out.
EmptyAsAbsent(a) ==
    [a EXCEPT !.projectId = IF @ = "" THEN Undefined ELSE @,
              !.workflowId = IF @ = "" THEN Undefined ELSE @,
              !.credentialId = IF @ = "" THEN Undefined ELSE @]

\* C30: an identifier passed as the empty string is treated like an absent
\* one: it triggers no lookup, it is never the project the role evaluation
\* uses, the outcome is the one of the same request with the identifier
\* left out, and a request whose identifiers are all empty or absent ends in
\* ERROR when the global check fails and globalOnly is false.
C30_EmptyStringIsAbsent ==
    /\ args.workflowId = "" => WorkflowLookups = {}
    /\ args.credentialId = "" => CredentialLookups = {}
    /\ RoleEvaluations # {} => currentProjectId \notin {"", Undefined}
    /\ (Done /\ error # "LookupError") =>
          /\ result = RunAlone(StartFrame(EmptyAsAbsent(args))).result
          /\ error = RunAlone(StartFrame(EmptyAsAbsent(args))).error
    /\ (Done /\ ~GlobalOk /\ ~args.globalOnly
              /\ {args.projectId, args.workflowId, args.credentialId} \subseteq {"", Undefined}) =>
          /\ result = "ERROR" /\ error = "UnexpectedError"
          /\ NoLookups

\* Every identifier was passed as the empty string by a user with project
\* roles: the evaluation threw.
C30_Witness ==
    /\ Done /\ result = "ERROR" /\ error = "UnexpectedError"
    /\ args.projectId = "" /\ args.workflowId = "" /\ args.credentialId = ""
    /\ Len(Items) > 0
    /\ trace = <<"hasGlobalScope">>

\* ---------------------------------------------------------------- C31
\* The last successful assign or revoke call for the project asked for.
LastCallForProject == lastCall.calls[args.projectId]

\* C31: for a user without the global scope, an evaluation with projectId P
\* is GRANTED when the last successful role change for P was
\* assignProjectRole(user, P, r) with r in rolesWithScope('project', scopes),
\* and DENIED when it was revokeProjectRole(user, P), whatever assign and
\* revoke calls for other projects came in between.
C31_AssignThenGrantedRevokeThenDenied ==
    (Done /\ ~GlobalOk /\ ~args.globalOnly /\ args.projectId \in Projects) =>
        /\ args.user = user
        /\ (LastCallForProject.state = "assigned"
                /\ LastCallForProject.role \in rolesWithScope("project", args.scopes)) =>
              (result = "GRANTED" /\ error = "none")
        /\ LastCallForProject.state = "revoked" =>
              (result = "DENIED" /\ error = "none")

\* The role assigned in the project granted the scopes, a role was assigned
\* in another project, the first role was revoked, and the evaluation for
\* the first project ended DENIED.
C31_Witness ==
    /\ Done /\ ~GlobalOk /\ ~args.globalOnly
    /\ args.projectId \in Projects
    /\ LastCallForProject.state = "revoked"
    /\ LastCallForProject.role \in rolesWithScope("project", args.scopes)
    /\ \E q \in Projects \ {args.projectId} :
          /\ lastCall.calls[q].state = "assigned"
          /\ lastCall.calls[q].role \in rolesWithScope("project", args.scopes)
    /\ result = "DENIED"

\* The role assigned in the project grants the scopes, the role in another
\* project was revoked, and the evaluation for the first project ended GRANTED.
C31_WitnessGranted ==
    /\ Done /\ ~GlobalOk /\ ~args.globalOnly
    /\ args.projectId \in Projects
    /\ LastCallForProject.state = "assigned"
    /\ \E q \in Projects \ {args.projectId} : lastCall.calls[q].state = "revoked"
    /\ result = "GRANTED"

====
